---- MODULE Spec2Model ----
(***************************************************************************)
(* A model of the RRT growth engine (class RRT) and of the parts of        *)
(* Tree<T> and LevelData it uses.                                          *)
(*                                                                         *)
(* Heap addresses are the naturals 1..MaxHeap, nullptr is NULL.  heap maps *)
(* the address of every node the engine can still reach to that node's     *)
(* fields; leaked is the set of addresses that are still allocated but     *)
(* that nothing references any longer (their contents are never read       *)
(* again).  Distances are exact: a float parameter is a fraction num/den,  *)
(* a magnitude sqrt(m2) is kept as the integer m2, and every comparison is *)
(* made on squares.                                                        *)
(***************************************************************************)
EXTENDS Integers, Sequences, FiniteSets, TLC

VARIABLES
    m_data,             \* RRT::m_data: the level in use, NoData before prepareTree
    m_start,            \* RRT::m_start
    m_end,              \* RRT::m_end
    m_sampleDistance,   \* RRT::m_sampleDistance, a fraction [num, den]
    m_branchDistance,   \* RRT::m_branchDistance, a fraction [num, den]
    m_nodes,            \* RRT::m_nodes: flat index -> address or NULL
    m_tree,             \* RRT::m_tree: address of the root
    heap,               \* address -> [m_data, m_parent, m_branches]
    leaked,             \* allocated addresses that nothing references
    copy,               \* a second object, made by copy construction, or NoCopy
    loop,               \* the locals of a calculateBranch call that is stepped through
    level,              \* RRTDemo::m_data: the LevelData loaded from a file, or NoData
    call,               \* the operation that ran last
    outcome             \* the path that operation took

vars == <<m_data, m_start, m_end, m_sampleDistance, m_branchDistance,
          m_nodes, m_tree, heap, leaked, copy, loop, level, call, outcome>>

\* The tree and the Occupancy Index, the state growth changes.
treeVars == <<m_tree, heap, m_nodes>>

\* The fields of the RRT object.
rrtVars == <<m_data, m_start, m_end, m_sampleDistance, m_branchDistance, m_nodes>>

---------------------------------------------------------------------------
\* Bounds of the model.

\* Number of heap addresses: at most MaxHeap nodes are allocated at a time.
MaxHeap == 4

---------------------------------------------------------------------------
\* Values.

NULL == 0

IntMax == 2147483647

\* A null m_data (no level): written as a level without tiles so that it compares
\* with the levels.
NoData == [m_width |-> 0, m_height |-> 0, m_tileData |-> <<>>]

\* calculateBranch's nullptr result: written as a coordinate no level holds, so
\* that it compares with the data of a branch.
NoBranch == [x |-> -1, y |-> -1]

Terrain == "Terrain"

OutOfBounds == "OutOfBounds"

Tree == "Tree"

Swamp == "Swamp"

Water == "Water"

TileType == {Terrain, OutOfBounds, Tree, Swamp, Water}

Vector2i(x, y) == [x |-> x, y |-> y]

\* A default-constructed Tree<sf::Vector2i>: data (0,0), no parent, no branches.
NewTree == [m_data |-> Vector2i(0, 0), m_parent |-> NULL, m_branches |-> <<>>]

Abs(n) == IF n < 0 THEN -n ELSE n

\* No copy of a Tree has been made.
NoCopy == [source |-> NULL, node |-> NULL]

\* No calculateBranch call is being stepped through.
NoLoop == [pc |-> "idle", nearest |-> NULL, start |-> Vector2i(0, 0),
           end |-> Vector2i(0, 0), current |-> 0, branch |-> NoBranch, odd |-> FALSE]

---------------------------------------------------------------------------
\* The levels a caller may load, row by row (index x + y * width).

\*  . T S
\*  . . W
LevelA ==
    [m_width |-> 3, m_height |-> 2,
     m_tileData |-> <<Terrain, Tree,    Swamp,
                      Terrain, Terrain, Water>>]

\*  . @
\*  . .
LevelB ==
    [m_width |-> 2, m_height |-> 2,
     m_tileData |-> <<Terrain, OutOfBounds,
                      Terrain, Terrain>>]

Levels == {LevelA, LevelB}

\* The constructor's arguments: the defaults, and a coarse step with a short branch.
DefaultParams == [sampleDistance |-> [num |-> 1, den |-> 4],
                  branchDistance |-> [num |-> 15, den |-> 1]]

CoarseParams == [sampleDistance |-> [num |-> 1, den |-> 2],
                 branchDistance |-> [num |-> 3, den |-> 2]]

ParamSets == {DefaultParams, CoarseParams}

---------------------------------------------------------------------------
\* LevelData.

getWidth(data) == data.m_width

getHeight(data) == data.m_height

getTileCount(data) == Len(data.m_tileData)

getTile(data, x, y) == data.m_tileData[x + y * data.m_width + 1]

\* The coordinates inside a level.
Coordinates(data) ==
    {Vector2i(x, y) : x \in 0 .. getWidth(data) - 1, y \in 0 .. getHeight(data) - 1}

\* x + y * width, the slot of a coordinate in m_nodes.
FlatIndex(position, width) == position.x + position.y * width

---------------------------------------------------------------------------
\* The tree.

RECURSIVE Subtree(_, _)
\* The addresses a node owns through m_branches, itself included.
Subtree(h, node) ==
    {node} \cup UNION {Subtree(h, h[node].m_branches[i]) : i \in DOMAIN h[node].m_branches}

\* The nodes of the current tree.
TreeNodes == Subtree(heap, m_tree)

\* The allocated addresses.
Allocated == DOMAIN heap \cup leaked

\* operator new: an address that is not allocated (the lowest one).
Alloc(allocated) ==
    CHOOSE a \in 1 .. MaxHeap : a \notin allocated /\ \A b \in 1 .. MaxHeap : b \notin allocated => a <= b

HasRoom(allocated) == \E a \in 1 .. MaxHeap : a \notin allocated

\* addBranch that puts the branch first.
addBranchFirst(h, this, branch) ==
    [h EXCEPT ![this].m_branches = <<branch>> \o @,
              ![branch].m_parent = this]

\* addBranch that assigns the branch list instead of appending to it.
addBranchReplace(h, this, branch) ==
    [h EXCEPT ![this].m_branches = <<branch>>,
              ![branch].m_parent = this]

\* addBranch that forgets the push_back.
addBranchDetached(h, this, branch) ==
    [h EXCEPT ![branch].m_parent = this]

\* addBranch that forgets "m_branches.back()->m_parent = this".
addBranchNoParent(h, this, branch) ==
    [h EXCEPT ![this].m_branches = Append(@, branch)]

\* Tree::addBranch (branch): push_back, then the new last branch's parent is this.
addBranch(h, this, branch) ==
    [h EXCEPT ![this].m_branches = Append(@, branch),
              ![branch].m_parent = this]

\* Tree::addBranch (index, branch): insert before index, then the branch's parent
\* is this.  index counts from 0.
addBranchAt(h, this, index, branch) ==
    [h EXCEPT ![this].m_branches = SubSeq(@, 1, index) \o <<branch>> \o SubSeq(@, index + 1, Len(@)),
              ![branch].m_parent = this]

RECURSIVE FindFrom(_, _, _)
\* findIndex's loop from i on.
FindFrom(branches, branch, i) ==
    IF i < Len(branches) /\ branches[i + 1] # branch
    THEN FindFrom(branches, branch, i + 1)
    ELSE i

\* Tree::findIndex: the first index that holds branch, the branch count if none
\* does.
findIndex(h, this, branch) == FindFrom(h[this].m_branches, branch, 0)

RECURSIVE Deletes(_, _), DeletesFrom(_, _, _)
\* The destructor's loop from the i-th branch on: "delete branch" for every
\* branch that is not null.
DeletesFrom(h, branches, i) ==
    IF i > Len(branches) THEN <<>>
    ELSE (IF branches[i] # NULL THEN Deletes(h, branches[i]) ELSE <<>>)
         \o DeletesFrom(h, branches, i + 1)

\* The addresses that "delete node" hands back, in the order they are handed
\* back: those of the destructor's loop, then the node's own.
Deletes(h, node) == DeletesFrom(h, h[node].m_branches, 1) \o <<node>>

\* "delete node" with a destructor that has no loop.
DeleteNodeOnly(h, node) == [a \in DOMAIN h \ {node} |-> h[a]]

\* "delete node": the heap without the addresses handed back.
Delete(h, node) ==
    [a \in DOMAIN h \ {Deletes(h, node)[k] : k \in DOMAIN Deletes(h, node)} |-> h[a]]

\* removeBranch that erases the entry instead of swapping it with the last.
removeBranchErase(h, this, index) ==
    LET branches == h[this].m_branches
    IN  [Delete(h, branches[index + 1]) EXCEPT
            ![this].m_branches = SubSeq(branches, 1, index) \o
                                 SubSeq(branches, index + 2, Len(branches))]

\* removeBranch that forgets the pop_back.
removeBranchNoPop(h, this, index) ==
    LET branches == h[this].m_branches
        last     == Len(branches)
        swapped  == [branches EXCEPT ![index + 1] = branches[last],
                                     ![last] = branches[index + 1]]
    IN  [Delete(h, swapped[last]) EXCEPT ![this].m_branches = swapped]

\* Tree::removeBranch (index): swap with the last branch, delete it, pop it.
removeBranch(h, this, index) ==
    LET branches == h[this].m_branches
        last     == Len(branches)
        swapped  == [branches EXCEPT ![index + 1] = branches[last],
                                     ![last] = branches[index + 1]]
    IN  [Delete(h, swapped[last]) EXCEPT ![this].m_branches = SubSeq(swapped, 1, last - 1)]

\* removeBranchOrdered that swaps with the last entry and pops it.
removeBranchOrderedSwap(h, this, index) ==
    LET branches == h[this].m_branches
        last     == Len(branches)
        swapped  == [branches EXCEPT ![index + 1] = branches[last],
                                     ![last] = branches[index + 1]]
    IN  [Delete(h, swapped[last]) EXCEPT ![this].m_branches = SubSeq(swapped, 1, last - 1)]

\* Tree::removeBranchOrdered (index): delete the branch, erase its entry.
removeBranchOrdered(h, this, index) ==
    LET branches == h[this].m_branches
    IN  [Delete(h, branches[index + 1]) EXCEPT
            ![this].m_branches = SubSeq(branches, 1, index) \o
                                 SubSeq(branches, index + 2, Len(branches))]

---------------------------------------------------------------------------
\* RRT.

\* hasFinished that tests the start slot twice.
hasFinishedStartOnly ==
    LET width == getWidth(m_data)
        start == FlatIndex(m_start, width)
    IN  m_nodes[start] # NULL /\ m_nodes[start] # NULL

hasFinished ==
    LET width == getWidth(m_data)
        start == FlatIndex(m_start, width)
        end   == FlatIndex(m_end, width)
    IN  m_nodes[start] # NULL /\ m_nodes[end] # NULL

\* isValidTile without the case of a Water base.
isValidTileLandOnly(data, position, base) ==
    LET type == getTile(data, position.x, position.y)
    IN  CASE base \in {OutOfBounds, Tree} -> type # OutOfBounds /\ type # Tree
          [] OTHER                        -> type = Terrain \/ type = Swamp

\* isValidTile that applies the rule of a Water base to every base.
isValidTileAsWater(data, position, base) ==
    LET type == getTile(data, position.x, position.y)
    IN  type = Water

\* isValidTile that lets a branch pass through Tree tiles.
isValidTileThroughTrees(data, position, base) ==
    LET type == getTile(data, position.x, position.y)
    IN  CASE base \in {OutOfBounds, Tree} -> type # OutOfBounds
          [] base = Water                 -> type = Water \/ type = Tree
          [] OTHER                        -> type = Terrain \/ type = Swamp \/ type = Tree

isValidTile(data, position, base) ==
    LET type == getTile(data, position.x, position.y)
    IN  CASE base \in {OutOfBounds, Tree} -> type # OutOfBounds /\ type # Tree
          [] base = Water                 -> type = Water
          [] OTHER                        -> type = Terrain \/ type = Swamp

RECURSIVE NearestScanLast(_, _, _, _, _, _)
\* The loop of determineNearest with "distance <= nearDistance": among the nodes
\* at the least distance the last one wins.
NearestScanLast(nodes, h, position, i, closest, nearDistance) ==
    IF i \notin DOMAIN nodes THEN closest
    ELSE IF nodes[i] = NULL
         THEN NearestScanLast(nodes, h, position, i + 1, closest, nearDistance)
         ELSE LET data     == h[nodes[i]].m_data
                  distance == Abs(data.x - position.x) + Abs(data.y - position.y)
              IN  IF distance <= nearDistance
                  THEN NearestScanLast(nodes, h, position, i + 1, nodes[i], distance)
                  ELSE NearestScanLast(nodes, h, position, i + 1, closest, nearDistance)

RECURSIVE NearestScan(_, _, _, _, _, _)
\* The loop of determineNearest over m_nodes from slot i on.
NearestScan(nodes, h, position, i, closest, nearDistance) ==
    IF i \notin DOMAIN nodes THEN closest
    ELSE IF nodes[i] = NULL
         THEN NearestScan(nodes, h, position, i + 1, closest, nearDistance)
         ELSE LET data     == h[nodes[i]].m_data
                  distance == Abs(data.x - position.x) + Abs(data.y - position.y)
              IN  IF distance < nearDistance
                  THEN NearestScan(nodes, h, position, i + 1, nodes[i], distance)
                  ELSE NearestScan(nodes, h, position, i + 1, closest, nearDistance)

determineNearest(nodes, h, root, position) ==
    NearestScan(nodes, h, position, 0, root, IntMax)

\* One axis of lerp at current = q / D along a segment of length sqrt(m2):
\* (int) ((float) s + (float) d * (current / magnitude)).
LerpAxis(s, d, q, D, m2) ==
    IF d >= 0
    THEN s + CHOOSE n \in 0 .. d :
                 /\ n * n * m2 * D * D <= d * d * q * q
                 /\ \A k \in 0 .. d : k * k * m2 * D * D <= d * d * q * q => k <= n
    ELSE s - CHOOSE n \in 0 .. -d :
                 /\ n * n * m2 * D * D >= d * d * q * q
                 /\ \A k \in 0 .. -d : k * k * m2 * D * D >= d * d * q * q => n <= k

\* lerp (start, end, current / magnitude); current = magnitude gives end.
Lerp(start, end, q, atMagnitude, D, m2) ==
    IF atMagnitude THEN end
    ELSE Vector2i(LerpAxis(start.x, end.x - start.x, q, D, m2),
                  LerpAxis(start.y, end.y - start.y, q, D, m2))

\* calculateBranch that returns the flat index of the end as the x of the branch.
calculateBranchFlat(data, sampleDistance, branchDistance, start, end) ==
    IF end = start THEN NoBranch
    ELSE Vector2i(FlatIndex(end, getWidth(data)), 0)

\* calculateBranch that stops at the tile next to start on the way to end.
calculateBranchOneTile(data, sampleDistance, branchDistance, start, end) ==
    LET Towards(from, to) == IF to > from THEN from + 1
                             ELSE IF to < from THEN from - 1 ELSE from
    IN  IF end = start THEN NoBranch
        ELSE Vector2i(Towards(start.x, end.x), Towards(start.y, end.y))

\* calculateBranch without the sampling: the branch is put at the end.
calculateBranchUnsampled(data, sampleDistance, branchDistance, start, end) ==
    IF end = start THEN NoBranch ELSE end

\* calculateBranch: the data of the branch it returns, NoBranch for a nullptr.
\* SampleLoop is its while loop: current = q / D on entry of an iteration, S and
\* B are the sample and branch distances in units of 1 / D, branch is the data of
\* the branch so far, or NoBranch.  The two locals are bound to their values (q
\* and branch range over singletons) so that an iteration reads them without
\* evaluating the iterations before it again.
calculateBranch(data, sampleDistance, branchDistance, start, end) ==
    LET difference == Vector2i(end.x - start.x, end.y - start.y)
        m2 == difference.x * difference.x + difference.y * difference.y
        D  == sampleDistance.den * branchDistance.den
        S  == sampleDistance.num * branchDistance.den
        B  == branchDistance.num * sampleDistance.den
        startType == getTile(data, start.x, start.y)
        RECURSIVE SampleLoop(_, _)
        SampleLoop(current, last) ==
            CHOOSE result \in
                {IF ~(q * q < m2 * D * D /\ q < B) THEN branch
                 ELSE LET \* fmin (fmin (current + m_sampleDistance, magnitude),
                          \*       m_branchDistance)
                          stepInside == (q + S) * (q + S) < m2 * D * D
                          atMagnitude == ~stepInside /\ m2 * D * D <= B * B
                          next == IF stepInside
                                  THEN (IF q + S < B THEN q + S ELSE B)
                                  ELSE B
                          inc  == Lerp(start, end, next, atMagnitude, D, m2)
                      IN  IF atMagnitude
                          THEN \* the last sample, current = magnitude: the loop
                               \* ends after it
                               IF inc # start
                               THEN (IF isValidTile(data, inc, startType)
                                     THEN inc ELSE branch)
                               ELSE branch
                          ELSE IF inc # start
                               THEN IF isValidTile(data, inc, startType)
                                    THEN SampleLoop(next, inc)
                                    ELSE branch
                               ELSE SampleLoop(next, branch)
                 : q \in {current}, branch \in {last}} : TRUE
    IN  SampleLoop(0, NoBranch)

\* The points calculateBranch's loop tests with isValidTile, in the order it
\* tests them: the interpolated point of every iteration where it is not start,
\* up to the one that ends the loop.
SampleTrail(data, sampleDistance, branchDistance, start, end) ==
    LET difference == Vector2i(end.x - start.x, end.y - start.y)
        m2 == difference.x * difference.x + difference.y * difference.y
        D  == sampleDistance.den * branchDistance.den
        S  == sampleDistance.num * branchDistance.den
        B  == branchDistance.num * sampleDistance.den
        startType == getTile(data, start.x, start.y)
        RECURSIVE TrailLoop(_, _)
        TrailLoop(current, tested) ==
            CHOOSE result \in
                {IF ~(q * q < m2 * D * D /\ q < B) THEN trail
                 ELSE LET stepInside == (q + S) * (q + S) < m2 * D * D
                          atMagnitude == ~stepInside /\ m2 * D * D <= B * B
                          next == IF stepInside THEN (IF q + S < B THEN q + S ELSE B) ELSE B
                          inc  == Lerp(start, end, next, atMagnitude, D, m2)
                      IN  IF inc = start
                          THEN (IF atMagnitude THEN trail ELSE TrailLoop(next, trail))
                          ELSE IF atMagnitude \/ ~isValidTile(data, inc, startType)
                               THEN Append(trail, inc)
                               ELSE TrailLoop(next, Append(trail, inc))
                 : q \in {current}, trail \in {tested}} : TRUE
    IN  TrailLoop(0, <<>>)

\* The guard without the hasFinished() test.
ShouldGrowNoFinishedTest == m_start # m_end

\* No guard at all.
ShouldGrowAlways == TRUE

\* generateBranch's "if (!hasFinished() && m_start != m_end)".
ShouldGrow == ~hasFinished /\ m_start # m_end

\* A graft that forgets "m_nodes[index] = branch".
RegisterNodeSkip(nodes, index, branch) == nodes

\* "m_nodes[index] = branch".
RegisterNode(nodes, index, branch) == [nodes EXCEPT ![index] = branch]

\* prepareTree that resizes m_nodes without clearing it first.
InitialNodesStale(data, start, root) ==
    [i \in 0 .. getTileCount(data) - 1 |->
        IF i = FlatIndex(start, getWidth(data)) THEN root
        ELSE IF i \in DOMAIN m_nodes THEN m_nodes[i] ELSE NULL]

\* prepareTree that forgets to register the root.
InitialNodesNoRoot(data, start, root) ==
    [i \in 0 .. getTileCount(data) - 1 |-> NULL]

\* m_nodes after prepareTree's clear, resize and "m_nodes[start.x + start.y *
\* data->getWidth()] = m_tree.get()": every slot null but the root's.
InitialNodes(data, start, root) ==
    [i \in 0 .. getTileCount(data) - 1 |->
        IF i = FlatIndex(start, getWidth(data)) THEN root ELSE NULL]

\* prepareTree with in-range arguments.
prepareTree(data, start, end) ==
    LET \* m_tree->clear(): the root forgets its branches without deleting them
        dropped == TreeNodes \ {m_tree}
        \* new RRTTree(), while the old root is still allocated
        root    == Alloc({m_tree} \cup leaked \cup dropped)
    IN  /\ HasRoom({m_tree} \cup leaked \cup dropped)
        /\ m_data' = data
        /\ m_start' = start
        /\ m_end' = end
        /\ leaked' = leaked \cup dropped
        \* m_tree.reset: the old root is deleted, the new one holds m_start
        /\ m_tree' = root
        /\ heap' = (root :> [NewTree EXCEPT !.m_data = start])
        /\ m_nodes' = InitialNodes(data, start, root)
        /\ call' = "prepareTree"
        /\ outcome' = "prepared"
        /\ UNCHANGED <<m_sampleDistance, m_branchDistance, copy, loop, level>>

\* The caller's prepareTree: any level, any start and end inside it.
PrepareTree ==
    \E data \in Levels :
        \E start \in Coordinates(data), end \in Coordinates(data) :
            prepareTree(data, start, end)

\* generateBranch with the sample rand() drew.
generateBranch(random) ==
    LET width == getWidth(m_data)
    IN  /\ call' = "generateBranch"
        /\ UNCHANGED <<m_data, m_start, m_end, m_sampleDistance, m_branchDistance,
                       copy, loop, level>>
        /\ IF ~ShouldGrow
           THEN outcome' = "finished" /\ UNCHANGED <<treeVars, leaked>>
           ELSE IF m_nodes[FlatIndex(random, width)] # NULL
           THEN outcome' = "occupied" /\ UNCHANGED <<treeVars, leaked>>
           ELSE \E nearest \in {determineNearest(m_nodes, heap, m_tree, random)} :
                \E newData \in {calculateBranch(m_data, m_sampleDistance, m_branchDistance,
                                                heap[nearest].m_data, random)} :
                    IF newData = NoBranch
                    THEN outcome' = "nobranch" /\ UNCHANGED <<treeVars, leaked>>
                    ELSE LET branch == Alloc(Allocated)
                             index  == FlatIndex(newData, width)
                         IN  /\ HasRoom(Allocated)
                             /\ IF m_nodes[index] = NULL
                                THEN /\ heap' = addBranch(
                                            heap @@ (branch :> [NewTree EXCEPT !.m_data = newData]),
                                            nearest, branch)
                                     /\ m_nodes' = RegisterNode(m_nodes, index, branch)
                                     /\ outcome' = "grafted"
                                     /\ UNCHANGED <<m_tree, leaked>>
                                ELSE \* delete branch
                                     /\ outcome' = "duplicate"
                                     /\ UNCHANGED <<treeVars, leaked>>

\* The caller's generateBranch, once a level is prepared (RRTDemo::gameLoop).
GenerateBranch ==
    /\ m_data # NoData
    /\ \E random \in Coordinates(m_data) : generateBranch(random)

\* RRT::RRT (sampleDistance, branchDistance).
Init ==
    /\ \E p \in ParamSets :
          /\ m_sampleDistance = p.sampleDistance
          /\ m_branchDistance = p.branchDistance
    /\ m_data = NoData
    /\ m_start = Vector2i(0, 0)
    /\ m_end = Vector2i(0, 0)
    /\ m_nodes = <<>>
    /\ m_tree = 1
    /\ heap = (1 :> NewTree)
    /\ leaked = {}
    /\ copy = NoCopy
    /\ loop = NoLoop
    /\ level = NoData
    /\ call = "RRT"
    /\ outcome = "constructed"

Next == PrepareTree \/ GenerateBranch

Spec == Init /\ [][Next]_vars

---------------------------------------------------------------------------
\* Growth on levels that a wall of Tree tiles divides (the start on one side, the
\* end on the other), with a sample step that may exceed one tile.

\*  . T .
\*  . T .
\*  . T .
ColumnWallLevel ==
    [m_width |-> 3, m_height |-> 3,
     m_tileData |-> <<Terrain, Tree, Terrain,
                      Terrain, Tree, Terrain,
                      Terrain, Tree, Terrain>>]

\*  . . T
\*  . T .
\*  T . .
DiagonalWallLevel ==
    [m_width |-> 3, m_height |-> 3,
     m_tileData |-> <<Terrain, Terrain, Tree,
                      Terrain, Tree,    Terrain,
                      Tree,    Terrain, Terrain>>]

WallLevels == {ColumnWallLevel, DiagonalWallLevel}

\* A sample step of two tiles.
LeapParams == [sampleDistance |-> [num |-> 2, den |-> 1],
               branchDistance |-> [num |-> 3, den |-> 1]]

WallParamSets == {DefaultParams, CoarseParams, LeapParams}

\* The tiles on the start's side of the wall.
StartSide(data) ==
    IF data = ColumnWallLevel
    THEN {c \in Coordinates(data) : c.x < 1}
    ELSE {c \in Coordinates(data) : c.x + c.y < 2}

\* The tiles on the end's side of the wall.
GoalSide(data) ==
    IF data = ColumnWallLevel
    THEN {c \in Coordinates(data) : c.x > 1}
    ELSE {c \in Coordinates(data) : c.x + c.y > 2}

\* The caller's prepareTree on a walled level.
PrepareWall ==
    \E data \in WallLevels :
        \E start \in StartSide(data), end \in GoalSide(data) :
            prepareTree(data, start, end)

WallInit ==
    /\ \E p \in WallParamSets :
          /\ m_sampleDistance = p.sampleDistance
          /\ m_branchDistance = p.branchDistance
    /\ m_data = NoData
    /\ m_start = Vector2i(0, 0)
    /\ m_end = Vector2i(0, 0)
    /\ m_nodes = <<>>
    /\ m_tree = 1
    /\ heap = (1 :> NewTree)
    /\ leaked = {}
    /\ copy = NoCopy
    /\ loop = NoLoop
    /\ level = NoData
    /\ call = "RRT"
    /\ outcome = "constructed"

WallNext == PrepareWall \/ GenerateBranch

WallSpec == WallInit /\ [][WallNext]_vars

---------------------------------------------------------------------------
\* Growth on an open level, from the corner (0,0) to the corner (4,4), with the
\* default parameters and a generator that keeps drawing the end.

\* Five by five Terrain tiles.
OpenLevel ==
    [m_width |-> 5, m_height |-> 5,
     m_tileData |-> <<Terrain, Terrain, Terrain, Terrain, Terrain,
                      Terrain, Terrain, Terrain, Terrain, Terrain,
                      Terrain, Terrain, Terrain, Terrain, Terrain,
                      Terrain, Terrain, Terrain, Terrain, Terrain,
                      Terrain, Terrain, Terrain, Terrain, Terrain>>]

OpenStart == Vector2i(0, 0)

OpenEnd == Vector2i(4, 4)

\* Two heap addresses are free: a graft leaves room for one more.
HasSpare == \E a \in 1 .. MaxHeap, b \in 1 .. MaxHeap :
                a # b /\ a \notin Allocated /\ b \notin Allocated

\* The one prepareTree of the run.
PrepareOpen ==
    /\ m_data = NoData
    /\ prepareTree(OpenLevel, OpenStart, OpenEnd)

\* generateBranch when rand() draws the end.
DrawEnd ==
    /\ m_data # NoData
    /\ generateBranch(m_end)

\* The tiles rand() draws in the runs that are explored: the end, and the tiles
\* of every other column and row.
OpenSamples ==
    {OpenEnd} \cup {c \in Coordinates(OpenLevel) : c.x % 2 = 0 /\ c.y % 2 = 0}

\* generateBranch with a sample.  The bound on the heap is kept from stopping the
\* graft of the end: another tile is drawn only while a graft leaves an address
\* free.
GrowOpen ==
    /\ m_data # NoData
    /\ \E random \in OpenSamples :
          /\ random = m_end \/ HasSpare
          /\ generateBranch(random)

OpenInit ==
    /\ m_sampleDistance = DefaultParams.sampleDistance
    /\ m_branchDistance = DefaultParams.branchDistance
    /\ m_data = NoData
    /\ m_start = Vector2i(0, 0)
    /\ m_end = Vector2i(0, 0)
    /\ m_nodes = <<>>
    /\ m_tree = 1
    /\ heap = (1 :> NewTree)
    /\ leaked = {}
    /\ copy = NoCopy
    /\ loop = NoLoop
    /\ level = NoData
    /\ call = "RRT"
    /\ outcome = "constructed"

OpenNext == PrepareOpen \/ GrowOpen

\* The caller prepares and then keeps calling generateBranch; rand() keeps
\* drawing the end.
OpenSpec ==
    /\ OpenInit
    /\ [][OpenNext]_vars
    /\ WF_vars(PrepareOpen)
    /\ WF_vars(DrawEnd)

---------------------------------------------------------------------------
\* prepareTree called with coordinates that may lie outside the level, in a
\* build that keeps its assert.

\* The coordinates a caller passes: those of the level and those one step out of
\* it on every side.
Arguments(data) ==
    {Vector2i(x, y) : x \in -1 .. getWidth(data), y \in -1 .. getHeight(data)}

\* The condition of prepareTree's assert.
PreconditionHolds(data, start, end) ==
    /\ start.x >= 0
    /\ start.x < getWidth(data)
    /\ end.x >= 0
    /\ end.y < getHeight(data)

\* m_nodes after clear and resize alone: the write of the root's slot went
\* outside the vector.
ClearedNodes(data) == [i \in 0 .. getTileCount(data) - 1 |-> NULL]

\* prepareTree with any arguments.  A failed assert aborts the program before
\* anything is written.  When the assert passes and start is outside the level,
\* "m_nodes[start.x + start.y * data->getWidth()]" is a write outside the vector
\* (the index is at least the tile count, or wraps around as unsigned): it
\* either stops the program there or lands in memory that is not the session's.
prepareTreeAsserted(data, start, end) ==
    IF ~PreconditionHolds(data, start, end)
    THEN /\ call' = "prepareTree"
         /\ outcome' = "aborted"
         /\ UNCHANGED <<rrtVars, m_tree, heap, leaked, copy, loop, level>>
    ELSE IF start \in Coordinates(data)
    THEN prepareTree(data, start, end)
    ELSE LET dropped == TreeNodes \ {m_tree}
             root    == Alloc({m_tree} \cup leaked \cup dropped)
         IN  /\ HasRoom({m_tree} \cup leaked \cup dropped)
             /\ m_data' = data
             /\ m_start' = start
             /\ m_end' = end
             /\ leaked' = leaked \cup dropped
             /\ m_tree' = root
             /\ heap' = (root :> [NewTree EXCEPT !.m_data = start])
             /\ m_nodes' = ClearedNodes(data)
             /\ call' = "prepareTree"
             /\ outcome' \in {"crashed", "wroteOutside"}
             /\ UNCHANGED <<m_sampleDistance, m_branchDistance, copy, loop, level>>

\* The caller's prepareTree, while the program runs.
PrepareAny ==
    /\ outcome \notin {"aborted", "crashed", "wroteOutside"}
    /\ \E data \in Levels :
          \E start \in Arguments(data), end \in Arguments(data) :
              prepareTreeAsserted(data, start, end)

AssertNext == PrepareAny

AssertSpec == Init /\ [][AssertNext]_vars

---------------------------------------------------------------------------
\* generateBranch stepped through calculateBranch's sampling loop, one iteration
\* at a time, with the cursor held as the float the code holds.

\* The bits of a float's significand.
SignificandBits == 24

\* A float is held as a whole number of units of 2^-25 tile.
ScaleBits == 25

RECURSIVE TwoTo(_)
TwoTo(n) == IF n = 0 THEN 1 ELSE 2 * TwoTo(n - 1)

\* The units in one tile.
Quantum == TwoTo(ScaleBits)

\* The position of the highest set bit of n, counted from 1.
RECURSIVE BitLength(_)
BitLength(n) == IF n = 0 THEN 0 ELSE 1 + BitLength(n \div 2)

\* The float nearest to n units: the significand keeps SignificandBits bits, a
\* tie goes to the even significand.
RoundToFloat(n) ==
    LET excess == BitLength(n) - SignificandBits
    IN  IF excess <= 0 THEN n
        ELSE LET ulp  == TwoTo(excess)
                 q    == n \div ulp
                 r    == n % ulp
                 half == ulp \div 2
             IN  IF r > half \/ (r = half /\ q % 2 = 1)
                 THEN (q + 1) * ulp
                 ELSE q * ulp

\* "current + m_sampleDistance".
FloatAdd(a, b) == RoundToFloat(a + b)

\* std::fmin.
fmin(a, b) == IF a < b THEN a ELSE b

\* A constructor argument in units.
ToFloat(f) == (f.num * Quantum) \div f.den

\* A sample step of 2^-25 tile.
TinyParams == [sampleDistance |-> [num |-> 1, den |-> Quantum],
               branchDistance |-> [num |-> 15, den |-> 1]]

LoopParamSets == {DefaultParams, TinyParams}

\* The iterations of a run with the tiny step that are taken one by one.
LoopWindow == 64

\* The segments that are stepped: along a row or a column, of a length that is a
\* power of two, so that the square root, "current / magnitude" and its product
\* with the difference are exact.
AlongAxis(start, end) ==
    LET length == Abs(end.x - start.x) + Abs(end.y - start.y)
    IN  /\ end.x = start.x \/ end.y = start.y
        /\ \E k \in 0 .. ScaleBits : length = TwoTo(k)

\* "magnitude" of a segment along an axis, in units.
Magnitude(start, end) == (Abs(end.x - start.x) + Abs(end.y - start.y)) * Quantum

\* "lerp (start, end, current / magnitude)" on a segment along an axis: the sum
\* with start is rounded, the conversion to int drops the fraction.
LerpFloat(start, end, current) ==
    LET length == Magnitude(start, end) \div Quantum
        axis(s, d) == RoundToFloat(s * Quantum + (d \div length) * current) \div Quantum
    IN  Vector2i(axis(start.x, end.x - start.x), axis(start.y, end.y - start.y))

\* "current < magnitude && current < m_branchDistance".
LoopCondition ==
    /\ loop.current < Magnitude(loop.start, loop.end)
    /\ loop.current < ToFloat(m_branchDistance)

\* The one prepareTree of the run: from a corner of the walled level to the
\* opposite corner.
PrepareLoop ==
    /\ m_data = NoData
    /\ prepareTree(ColumnWallLevel, Vector2i(0, 0), Vector2i(2, 2))

\* generateBranch up to the first test of the loop's condition.
BeginBranch ==
    /\ m_data # NoData
    /\ loop.pc # "loop"
    /\ loop.pc # "break"
    /\ HasRoom(Allocated)
    /\ \E random \in Coordinates(m_data) :
          /\ call' = "generateBranch"
          /\ UNCHANGED <<rrtVars, treeVars, leaked, copy, level>>
          /\ IF ~ShouldGrow
             THEN outcome' = "finished" /\ loop' = NoLoop
             ELSE IF m_nodes[FlatIndex(random, getWidth(m_data))] # NULL
             THEN outcome' = "occupied" /\ loop' = NoLoop
             ELSE \E nearest \in {determineNearest(m_nodes, heap, m_tree, random)} :
                     /\ AlongAxis(heap[nearest].m_data, random)
                     /\ outcome' = "sampling"
                     /\ loop' = [pc |-> "loop", nearest |-> nearest,
                                 start |-> heap[nearest].m_data, end |-> random,
                                 current |-> 0, branch |-> NoBranch, odd |-> FALSE]

\* The first 2^24 - LoopWindow iterations of a run with a step of one unit are
\* taken in one step.  Every sum below 2^24 units is a float, so none of them is
\* rounded; the cursor stays below both limits; the interpolated point moves one
\* way along its axis, so it stays on start's tile as long as the last one does.
SkipTarget == TwoTo(SignificandBits) - LoopWindow

CanSkip ==
    /\ loop.current = 0
    /\ ToFloat(m_sampleDistance) = 1
    /\ SkipTarget < Magnitude(loop.start, loop.end)
    /\ SkipTarget < ToFloat(m_branchDistance)
    /\ LerpFloat(loop.start, loop.end, SkipTarget) = loop.start

SkipSamples ==
    /\ loop.pc = "loop"
    /\ CanSkip
    /\ loop' = [loop EXCEPT !.current = SkipTarget,
                            !.odd = (LoopWindow % 2 = 1)]
    /\ UNCHANGED <<rrtVars, treeVars, leaked, copy, call, outcome, level>>

\* One iteration of the loop.
Sample ==
    /\ loop.pc = "loop"
    /\ LoopCondition
    /\ ~CanSkip
    /\ \E current \in {fmin(fmin(FloatAdd(loop.current, ToFloat(m_sampleDistance)),
                                 Magnitude(loop.start, loop.end)),
                            ToFloat(m_branchDistance))} :
       \E inc \in {LerpFloat(loop.start, loop.end, current)} :
          loop' = [loop EXCEPT
                      !.current = current,
                      !.odd = ~loop.odd,
                      !.branch = IF inc # loop.start
                                    /\ isValidTile(m_data, inc,
                                           getTile(m_data, loop.start.x, loop.start.y))
                                 THEN inc ELSE @,
                      !.pc = IF inc # loop.start
                                /\ ~isValidTile(m_data, inc,
                                       getTile(m_data, loop.start.x, loop.start.y))
                             THEN "break" ELSE @]
    /\ UNCHANGED <<rrtVars, treeVars, leaked, copy, call, outcome, level>>

\* The loop is left, by its condition or by its break, and generateBranch goes
\* on with the branch it was handed.
FinishBranch ==
    /\ loop.pc = "break" \/ (loop.pc = "loop" /\ ~LoopCondition)
    /\ loop' = NoLoop
    /\ call' = "generateBranch"
    /\ UNCHANGED <<m_data, m_start, m_end, m_sampleDistance, m_branchDistance,
                   m_tree, leaked, copy, level>>
    /\ IF loop.branch = NoBranch
       THEN outcome' = "nobranch" /\ UNCHANGED <<heap, m_nodes>>
       ELSE LET branch == Alloc(Allocated)
                index  == FlatIndex(loop.branch, getWidth(m_data))
            IN  IF m_nodes[index] = NULL
                THEN /\ heap' = addBranch(
                            heap @@ (branch :> [NewTree EXCEPT !.m_data = loop.branch]),
                            loop.nearest, branch)
                     /\ m_nodes' = RegisterNode(m_nodes, index, branch)
                     /\ outcome' = "grafted"
                ELSE /\ outcome' = "duplicate"
                     /\ UNCHANGED <<heap, m_nodes>>

LoopInit ==
    /\ \E p \in LoopParamSets :
          /\ m_sampleDistance = p.sampleDistance
          /\ m_branchDistance = p.branchDistance
    /\ m_data = NoData
    /\ m_start = Vector2i(0, 0)
    /\ m_end = Vector2i(0, 0)
    /\ m_nodes = <<>>
    /\ m_tree = 1
    /\ heap = (1 :> NewTree)
    /\ leaked = {}
    /\ copy = NoCopy
    /\ loop = NoLoop
    /\ level = NoData
    /\ call = "RRT"
    /\ outcome = "constructed"

LoopNext == PrepareLoop \/ BeginBranch \/ SkipSamples \/ Sample \/ FinishBranch

\* The call that is inside the loop keeps running.
LoopSpec ==
    /\ LoopInit
    /\ [][LoopNext]_vars
    /\ WF_vars(SkipSamples)
    /\ WF_vars(Sample)
    /\ WF_vars(FinishBranch)

---------------------------------------------------------------------------
\* A Tree used on its own: a root as constructed, and callers that add fresh
\* nodes and remove branches, by index and by pointer.

\* The indices of this's branches, counted from 0.
BranchIndices(this) == 0 .. Len(heap[this].m_branches) - 1

\* The branches of this.
BranchesOf(this) == {heap[this].m_branches[i] : i \in DOMAIN heap[this].m_branches}

\* A call on the tree leaves the RRT's own members alone.
TreeCall(name) ==
    /\ call' = name
    /\ UNCHANGED <<rrtVars, m_tree, leaked, copy, loop, outcome, level>>

\* this->addBranch (new Tree).
AddBranch ==
    /\ HasRoom(Allocated)
    /\ \E this \in TreeNodes :
          heap' = addBranch(heap @@ (Alloc(Allocated) :> NewTree), this, Alloc(Allocated))
    /\ TreeCall("addBranch")

\* this->addBranch (index, new Tree), index within the new size.
AddBranchAt ==
    /\ HasRoom(Allocated)
    /\ \E this \in TreeNodes :
          \E index \in 0 .. Len(heap[this].m_branches) :
              heap' = addBranchAt(heap @@ (Alloc(Allocated) :> NewTree), this, index,
                                  Alloc(Allocated))
    /\ TreeCall("addBranchAt")

\* this->removeBranch (index).
RemoveBranchAt(this, index) ==
    /\ heap' = removeBranch(heap, this, index)
    /\ TreeCall("removeBranch")

\* this->removeBranchOrdered (index).
RemoveBranchOrderedAt(this, index) ==
    /\ heap' = removeBranchOrdered(heap, this, index)
    /\ TreeCall("removeBranchOrdered")

\* this->removeBranch (index), index in range.
RemoveBranch ==
    \E this \in TreeNodes :
        \E index \in BranchIndices(this) : RemoveBranchAt(this, index)

\* this->removeBranch (branch), branch one of this's.
RemoveBranchByPointer ==
    \E this \in TreeNodes :
        \E branch \in BranchesOf(this) :
            RemoveBranchAt(this, findIndex(heap, this, branch))

\* this->removeBranchOrdered (index), index in range.
RemoveBranchOrdered ==
    \E this \in TreeNodes :
        \E index \in BranchIndices(this) : RemoveBranchOrderedAt(this, index)

\* this->removeBranchOrdered (branch), branch one of this's.
RemoveBranchOrderedByPointer ==
    \E this \in TreeNodes :
        \E branch \in BranchesOf(this) :
            RemoveBranchOrderedAt(this, findIndex(heap, this, branch))

\* Tree::Tree(): a lone root.
TreeInit ==
    /\ m_sampleDistance = DefaultParams.sampleDistance
    /\ m_branchDistance = DefaultParams.branchDistance
    /\ m_data = NoData
    /\ m_start = Vector2i(0, 0)
    /\ m_end = Vector2i(0, 0)
    /\ m_nodes = <<>>
    /\ m_tree = 1
    /\ heap = (1 :> NewTree)
    /\ leaked = {}
    /\ copy = NoCopy
    /\ loop = NoLoop
    /\ level = NoData
    /\ call = "Tree"
    /\ outcome = "constructed"

TreeNext ==
    \/ AddBranch
    \/ AddBranchAt
    \/ RemoveBranch
    \/ RemoveBranchByPointer
    \/ RemoveBranchOrdered
    \/ RemoveBranchOrderedByPointer

TreeSpec == TreeInit /\ [][TreeNext]_vars

---------------------------------------------------------------------------
\* A Tree that is copied, and then one of the two is destroyed.

\* The statement of the copy assignment, "branches = copy.m_branches", names no
\* member of Tree.  It copies no payload and no parent under any reading; the
\* branches the new node ends up with are either the source's vector of
\* pointers (the statement read as an assignment to m_branches) or none (the
\* statement assigns no member).
CopiedBranches(source) == {heap[source].m_branches, <<>>}

\* "new Tree (*source)": a node with its members' default values, then
\* "*this = copy".
CopyTree ==
    /\ copy = NoCopy
    /\ call # "~Tree"
    /\ HasRoom(Allocated)
    /\ \E source \in TreeNodes :
          \E branches \in CopiedBranches(source) :
              /\ heap' = heap @@ (Alloc(Allocated) :> [NewTree EXCEPT !.m_branches = branches])
              /\ copy' = [source |-> source, node |-> Alloc(Allocated)]
    /\ call' = "Tree(copy)"
    /\ UNCHANGED <<rrtVars, m_tree, leaked, loop, outcome, level>>

\* "delete" of the copy.
DestroyCopy ==
    /\ copy # NoCopy
    /\ call # "~Tree"
    /\ heap' = Delete(heap, copy.node)
    /\ call' = "~Tree"
    /\ UNCHANGED <<rrtVars, m_tree, leaked, copy, loop, outcome, level>>

\* "delete" of the tree that was copied from.
DestroySource ==
    /\ copy # NoCopy
    /\ call # "~Tree"
    /\ heap' = Delete(heap, m_tree)
    /\ m_tree' = NULL
    /\ call' = "~Tree"
    /\ UNCHANGED <<rrtVars, leaked, copy, loop, outcome, level>>

\* The tree is built and pruned, then copied.
GrowTree ==
    /\ copy = NoCopy
    /\ TreeNext

CopyNext == GrowTree \/ CopyTree \/ DestroyCopy \/ DestroySource

CopySpec == TreeInit /\ [][CopyNext]_vars

---------------------------------------------------------------------------
\* A Tree whose callers also pass indices outside the range, and pointers that
\* are no branch of the node.  "assert (index < getBranchCount())" stops the
\* program in a build that keeps its asserts and is no code at all in a build
\* with NDEBUG, where the vector is then indexed outside its size.

\* The indices tried outside the range: the branch count and the one after it.
OutsideIndices(this) == Len(heap[this].m_branches) .. Len(heap[this].m_branches) + 1

\* The pointers that are no branch of this: null, and the other nodes.
Strangers(this) == ({NULL} \cup DOMAIN heap) \ BranchesOf(this)

\* The program is still running.
Running == outcome = "constructed"

\* A removal with an index outside the range.  With its assert the call stops
\* the program before anything is written.  Without it, removeBranch swaps the
\* last entry with the slot behind it and pops, removeBranchOrdered erases at
\* end(); the pointer that is deleted is whatever the slot held: the program
\* stops there, or goes on with the last branch dropped from m_branches and
\* still allocated.
RemoveOutside(name, this) ==
    /\ call' = name
    /\ UNCHANGED <<rrtVars, m_tree, copy, loop, level>>
    /\ \/ /\ outcome' \in {"aborted", "crashed"}
          /\ UNCHANGED <<heap, leaked>>
       \/ /\ heap[this].m_branches # <<>>
          /\ LET branches == heap[this].m_branches
                 dropped  == Subtree(heap, branches[Len(branches)])
             IN  /\ heap' = [a \in DOMAIN heap \ dropped |->
                                IF a = this
                                THEN [heap[a] EXCEPT !.m_branches =
                                          SubSeq(branches, 1, Len(branches) - 1)]
                                ELSE heap[a]]
                 /\ leaked' = leaked \cup dropped
          /\ outcome' = "removedOther"

\* this->getBranch (index).  Outside the range the assert stops the program,
\* or the slot behind the entries is read and returned.
getBranch(this, index) ==
    /\ call' = "getBranch"
    /\ UNCHANGED <<rrtVars, treeVars, leaked, copy, loop, level>>
    /\ IF index < Len(heap[this].m_branches)
       THEN UNCHANGED outcome
       ELSE outcome' \in {"aborted", "returnedOther"}

\* this->removeBranch (index), any index.
removeBranchAsserted(this, index) ==
    IF index < Len(heap[this].m_branches)
    THEN RemoveBranchAt(this, index)
    ELSE RemoveOutside("removeBranch", this)

\* this->removeBranchOrdered (index), any index.
removeBranchOrderedAsserted(this, index) ==
    IF index < Len(heap[this].m_branches)
    THEN RemoveBranchOrderedAt(this, index)
    ELSE RemoveOutside("removeBranchOrdered", this)

GetBranch ==
    /\ Running
    /\ \E this \in TreeNodes :
          \E index \in BranchIndices(this) \cup OutsideIndices(this) : getBranch(this, index)

RemoveBranchOutside ==
    /\ Running
    /\ \E this \in TreeNodes :
          \E index \in OutsideIndices(this) : removeBranchAsserted(this, index)

RemoveBranchOrderedOutside ==
    /\ Running
    /\ \E this \in TreeNodes :
          \E index \in OutsideIndices(this) : removeBranchOrderedAsserted(this, index)

\* this->removeBranch (branch), branch no branch of this: findIndex returns the
\* branch count, which is passed on as the index.
RemoveStranger ==
    /\ Running
    /\ \E this \in TreeNodes :
          \E branch \in Strangers(this) :
              removeBranchAsserted(this, findIndex(heap, this, branch))

\* this->removeBranchOrdered (branch), branch no branch of this.
RemoveStrangerOrdered ==
    /\ Running
    /\ \E this \in TreeNodes :
          \E branch \in Strangers(this) :
              removeBranchOrderedAsserted(this, findIndex(heap, this, branch))

\* The tree is built and pruned while the program runs.
GrowRunning ==
    /\ Running
    /\ TreeNext

BoundsNext ==
    \/ GrowRunning
    \/ GetBranch
    \/ RemoveBranchOutside
    \/ RemoveBranchOrderedOutside
    \/ RemoveStranger
    \/ RemoveStrangerOrdered

BoundsSpec == TreeInit /\ [][BoundsNext]_vars

---------------------------------------------------------------------------
\* Two RRT objects, the second made from the first by "RRT (const RRT& copy) =
\* default".  The members above are those of the object a call is made on, copy
\* holds the members of the other one; both live in the one heap.

\* The defaulted copy constructor copies member by member: the shared_ptrs
\* m_data and m_tree and the pointers in m_nodes are copied, not what they
\* point to.
Members ==
    [m_data |-> m_data, m_start |-> m_start, m_end |-> m_end,
     m_sampleDistance |-> m_sampleDistance, m_branchDistance |-> m_branchDistance,
     m_nodes |-> m_nodes, m_tree |-> m_tree]

\* "RRT other (rrt);".
CopyRRT ==
    /\ copy = NoCopy
    /\ m_data # NoData
    /\ copy' = Members
    /\ call' = "RRT(copy)"
    /\ outcome' = "copied"
    /\ UNCHANGED <<rrtVars, treeVars, leaked, loop, level>>

\* The caller turns to the other object.
SwitchInstance ==
    /\ copy # NoCopy
    /\ call # "switch"
    /\ copy' = Members
    /\ m_data' = copy.m_data
    /\ m_start' = copy.m_start
    /\ m_end' = copy.m_end
    /\ m_sampleDistance' = copy.m_sampleDistance
    /\ m_branchDistance' = copy.m_branchDistance
    /\ m_nodes' = copy.m_nodes
    /\ m_tree' = copy.m_tree
    /\ call' = "switch"
    /\ UNCHANGED <<heap, leaked, loop, outcome, level>>

\* prepareTree while another object may hold the same root.  "m_tree->clear()"
\* empties the root's m_branches in place; "m_tree.reset (new RRTTree())"
\* deletes the old root only if no other shared_ptr holds it.  The nodes the
\* root let go of stay allocated.
prepareTreeShared(data, start, end) ==
    LET dropped == TreeNodes \ {m_tree}
        held    == copy # NoCopy /\ copy.m_tree = m_tree
        root    == Alloc(Allocated)
        cleared == [heap EXCEPT ![m_tree].m_branches = <<>>]
        kept    == IF held THEN DOMAIN heap ELSE DOMAIN heap \ {m_tree}
    IN  /\ HasRoom(Allocated)
        /\ m_data' = data
        /\ m_start' = start
        /\ m_end' = end
        /\ leaked' = leaked \cup dropped
        /\ m_tree' = root
        /\ heap' = [a \in kept |-> cleared[a]] @@ (root :> [NewTree EXCEPT !.m_data = start])
        /\ m_nodes' = InitialNodes(data, start, root)
        /\ call' = "prepareTree"
        /\ outcome' = "prepared"
        /\ UNCHANGED <<m_sampleDistance, m_branchDistance, copy, loop, level>>

\* The caller's prepareTree on the small level: from a tile of the left
\* column to the far corner.
PrepareShared ==
    \E start \in {Vector2i(0, 0), Vector2i(0, 1)} :
        prepareTreeShared(LevelB, start, Vector2i(1, 1))

TwinNext == PrepareShared \/ GenerateBranch \/ CopyRRT \/ SwitchInstance

TwinSpec == Init /\ [][TwinNext]_vars

---------------------------------------------------------------------------
\* Growth with the shortest branch the constructor accepts, and on a level
\* without a tile that stops a branch.

\* Terrain and Swamp tiles only: every tile is passable from every tile.
\*  . S .
\*  S . .
\*  . . S
PlainLevel ==
    [m_width |-> 3, m_height |-> 3,
     m_tileData |-> <<Terrain, Swamp,   Terrain,
                      Swamp,   Terrain, Terrain,
                      Terrain, Terrain, Swamp>>]

\* A branch distance of 1, the least that passes the constructor's assert.
UnitParams == [sampleDistance |-> [num |-> 1, den |-> 2],
               branchDistance |-> [num |-> 1, den |-> 1]]

ReachParamSets == {DefaultParams, UnitParams}

\* The starts on either level: a corner and the centre of the plain level.
ReachStarts == {Vector2i(0, 0), Vector2i(1, 1)}

\* The end on the plain level, and the ends on the level with obstacles (its
\* Swamp and Water tiles).
PlainEnds == {Vector2i(2, 2)}

ObstacleEnds == {Vector2i(2, 0), Vector2i(2, 1)}

\* The caller's prepareTree: the level with obstacles or the plain level.
PrepareReach ==
    \/ \E start \in ReachStarts, end \in ObstacleEnds :
           prepareTree(LevelA, start, end)
    \/ \E start \in ReachStarts, end \in PlainEnds :
           prepareTree(PlainLevel, start, end)

ReachInit ==
    /\ \E p \in ReachParamSets :
          /\ m_sampleDistance = p.sampleDistance
          /\ m_branchDistance = p.branchDistance
    /\ m_data = NoData
    /\ m_start = Vector2i(0, 0)
    /\ m_end = Vector2i(0, 0)
    /\ m_nodes = <<>>
    /\ m_tree = 1
    /\ heap = (1 :> NewTree)
    /\ leaked = {}
    /\ copy = NoCopy
    /\ loop = NoLoop
    /\ level = NoData
    /\ call = "RRT"
    /\ outcome = "constructed"

ReachNext == PrepareReach \/ GenerateBranch

ReachSpec == ReachInit /\ [][ReachNext]_vars

---------------------------------------------------------------------------
\* Loading a level from a file (LevelData), then preparing the tree with it.

\* The largest width and height a header gives.
MaxSide == 3

\* The largest number of tile characters a file holds.
MaxTiles == 10

\* The characters of the map: terrain, and one that is no tile.
TileChars == {".", "?"}

\* The files: whether the stream opens, whether the four header lines parse,
\* the header's values, and the characters after the header.
Files ==
    [open   : BOOLEAN,
     header : BOOLEAN,
     height : 0 .. MaxSide,
     width  : 0 .. MaxSide,
     tiles  : {[i \in 1 .. n |-> c] : n \in 0 .. MaxTiles, c \in TileChars}]

\* What push_back does to capacity() when size() = capacity(): the standard
\* leaves it to the library, one doubles and one adds a half.
GrowthPolicies == {"double", "half"}

Grow(policy, capacity) ==
    IF policy = "double"
    THEN IF capacity = 0 THEN 1 ELSE 2 * capacity
    ELSE IF capacity + capacity \div 2 < capacity + 1
         THEN capacity + 1
         ELSE capacity + capacity \div 2

\* capacity() after "while (stream >> tile) m_tileData.push_back (...)" has
\* pushed count tiles into the empty vector readHeader reserved.
RECURSIVE PushAll(_, _, _, _)
PushAll(policy, capacity, size, count) ==
    IF size = count
    THEN capacity
    ELSE PushAll(policy,
                 IF size = capacity THEN Grow(policy, capacity) ELSE capacity,
                 size + 1, count)

\* LevelData::determineTileType; "invalid" stands for the invalid_argument.
determineTileType(tile) ==
    CASE tile \in {".", "G"} -> Terrain
      [] tile \in {"@", "O"} -> OutOfBounds
      [] tile = "T"          -> Tree
      [] tile = "S"          -> Swamp
      [] tile = "W"          -> Water
      [] OTHER               -> "invalid"

\* The result of a load: the exception thrown ("" for none) and the object.
Thrown(error) == [error |-> error, data |-> NoData]

\* LevelData::readHeader: the capacity reserved, or 0 with the error thrown.
\* "m_width * m_height" is an unsigned int product: below MaxSide * MaxSide it
\* does not wrap.
readHeader(file) ==
    IF ~file.header
    THEN [error |-> "runtime_error", capacity |-> 0]
    ELSE IF \/ file.width = 0  \/ file.width >= IntMax
            \/ file.height = 0 \/ file.height >= IntMax
    THEN [error |-> "runtime_error", capacity |-> 0]
    ELSE [error |-> "", capacity |-> file.width * file.height]

\* LevelData::readLevel: every character is pushed, then size() is compared
\* with capacity().
readLevel(file, policy, reserved) ==
    IF \E i \in DOMAIN file.tiles : determineTileType(file.tiles[i]) = "invalid"
    THEN Thrown("invalid_argument")
    ELSE IF Len(file.tiles) # PushAll(policy, reserved, 0, Len(file.tiles))
    THEN Thrown("runtime_error")
    ELSE [error |-> "",
          data  |-> [m_width |-> file.width, m_height |-> file.height,
                     m_tileData |-> [i \in DOMAIN file.tiles |->
                                        determineTileType(file.tiles[i])]]]

\* LevelData::loadFromFile.
loadFromFile(file, policy) ==
    IF ~file.open
    THEN Thrown("invalid_argument")
    ELSE IF readHeader(file).error # ""
    THEN Thrown(readHeader(file).error)
    ELSE readLevel(file, policy, readHeader(file).capacity)

\* "m_data = std::make_shared<LevelData> (file)", which RRTDemo::run() does
\* once, before the game loop: an exception leaves the pointer null.
LoadFromFile ==
    /\ level = NoData
    /\ \E file \in Files, policy \in GrowthPolicies :
        \E loaded \in {loadFromFile(file, policy)} :
            /\ level' = IF loaded.error = "" THEN loaded.data ELSE level
            /\ call' = "loadFromFile"
            /\ outcome' = IF loaded.error = "" THEN "loaded" ELSE loaded.error
            /\ UNCHANGED <<rrtVars, treeVars, leaked, copy, loop>>

\* "m_rrt->prepareTree (m_data, m_start, m_end)" with the loaded level.
PrepareLoaded ==
    /\ level # NoData
    /\ \E end \in Coordinates(level) :
          prepareTree(level, Vector2i(0, 0), end)

LoadNext == LoadFromFile \/ PrepareLoaded

LoadSpec == Init /\ [][LoadNext]_vars

---------------------------------------------------------------------------
\* Vocabulary of the properties.

\* prepareTree has been called.
Prepared == m_data # NoData

\* The occupied slots of the Occupancy Index.
OccupiedSlots == {i \in DOMAIN m_nodes : m_nodes[i] # NULL}

\* The nodes of the tree whose coordinate has flat index i.
NodesAt(i) == {n \in TreeNodes : FlatIndex(heap[n].m_data, getWidth(m_data)) = i}

RECURSIVE ReachesRoot(_, _)
\* Following parent links from node reaches the root within steps links.
ReachesRoot(node, steps) ==
    \/ node = m_tree
    \/ /\ steps > 0
       /\ node \in DOMAIN heap
       /\ heap[node].m_parent \in DOMAIN heap
       /\ ReachesRoot(heap[node].m_parent, steps - 1)

RECURSIVE Depth(_)
\* The number of parent links from a node of the tree up to the root.
Depth(node) == IF node = m_tree THEN 0 ELSE 1 + Depth(heap[node].m_parent)

---------------------------------------------------------------------------
\* C1: once prepared, an Occupancy Index slot is set iff some node of the tree
\* holds the coordinate whose flat index is that slot, and the slot references
\* such a node.
C1_OccupancyMatchesTree ==
    Prepared =>
        \A i \in DOMAIN m_nodes :
            /\ m_nodes[i] # NULL <=> NodesAt(i) # {}
            /\ m_nodes[i] # NULL => m_nodes[i] \in NodesAt(i)

\* A tree of three nodes, just grown.
C1_Witness ==
    /\ outcome = "grafted"
    /\ Cardinality(TreeNodes) >= 3
    /\ Cardinality(OccupiedSlots) >= 3

\* C2: no two nodes of the tree hold the same coordinate.
C2_NoTwoNodesShareCoordinate ==
    \A a \in TreeNodes : \A b \in TreeNodes :
        heap[a].m_data = heap[b].m_data => a = b

\* A tree of three nodes or more, one of them two links below the root, just
\* grown by a graft.
C2_Witness ==
    /\ outcome = "grafted"
    /\ Cardinality(TreeNodes) >= 3
    /\ \E n \in TreeNodes : Depth(n) >= 2

\* C3: the tree is one component: the root has no parent and holds the start
\* passed to the last prepareTree, every node the engine holds is a node of the
\* tree, and parent links lead from each of them to the root.
C3_TreeConnected ==
    Prepared =>
        /\ heap[m_tree].m_parent = NULL
        /\ heap[m_tree].m_data = m_start
        /\ DOMAIN heap = TreeNodes
        /\ \A n \in TreeNodes : ReachesRoot(n, Cardinality(TreeNodes))
        /\ \A n \in TreeNodes : \A i \in DOMAIN heap[n].m_branches :
               heap[heap[n].m_branches[i]].m_parent = n

\* A node two parent links away from a root that is not at (0,0).
C3_Witness ==
    /\ Prepared
    /\ m_start # Vector2i(0, 0)
    /\ \E n \in TreeNodes :
          /\ heap[n].m_parent # NULL
          /\ heap[n].m_parent # m_tree

\* C4: hasFinished() is true exactly when the slots of start and goal are both
\* occupied, which is when the tree holds a node at start and a node at goal;
\* and then the node in the goal's slot holds the goal and is linked to the
\* root, which holds start.
C4_FinishedMeansPath ==
    Prepared =>
        /\ hasFinished <=>
              {FlatIndex(m_start, getWidth(m_data)),
               FlatIndex(m_end, getWidth(m_data))} \subseteq OccupiedSlots
        /\ hasFinished <=>
              /\ \E n \in TreeNodes : heap[n].m_data = m_start
              /\ \E n \in TreeNodes : heap[n].m_data = m_end
        /\ hasFinished =>
              /\ heap[m_tree].m_data = m_start
              /\ \E g \in TreeNodes :
                    /\ heap[g].m_data = m_end
                    /\ m_nodes[FlatIndex(m_end, getWidth(m_data))] = g
                    /\ ReachesRoot(g, Cardinality(TreeNodes))

\* The goal was reached by growth, two links from the root.
C4_Witness ==
    /\ Prepared
    /\ hasFinished
    /\ m_start # m_end
    /\ \E g \in TreeNodes : heap[g].m_data = m_end /\ Depth(g) >= 2

\* C5: once hasFinished() is true, a generateBranch() call changes neither the
\* tree nor the Occupancy Index nor the heap, and hasFinished() stays true, so
\* the same holds of every later call.
C5_FinishedIsFrozen ==
    [][(Prepared /\ hasFinished /\ call' = "generateBranch") =>
          /\ UNCHANGED <<treeVars, leaked, m_data, m_start, m_end>>
          /\ hasFinished']_vars

\* A generateBranch() call made after growth reached a goal other than start.
C5_Witness ==
    /\ call = "generateBranch"
    /\ outcome = "finished"
    /\ m_start # m_end
    /\ hasFinished
    /\ Cardinality(TreeNodes) >= 2

\* C6: after prepareTree with start = goal the tree is the root alone and one
\* slot is occupied, and every generateBranch() call leaves it so.
C6_SamePointNeverGrows ==
    [][(Prepared' /\ m_start' = m_end') =>
          /\ TreeNodes' = {m_tree'}
          /\ DOMAIN heap' = {m_tree'}
          /\ heap'[m_tree'].m_branches = <<>>
          /\ OccupiedSlots' = {FlatIndex(m_start', getWidth(m_data'))}
          /\ call' = "generateBranch" => UNCHANGED <<treeVars, leaked>>]_vars

\* A generateBranch() call made with start = goal, in a second session.
C6_Witness ==
    /\ Prepared
    /\ m_start = m_end
    /\ call = "generateBranch"
    /\ leaked # {}

\* C7: a generateBranch() call keeps every occupied slot occupied by the same
\* node, which stays in the tree with the same coordinate.
C7_OccupiedCellsNeverShrink ==
    [][call' = "generateBranch" =>
          /\ DOMAIN m_nodes' = DOMAIN m_nodes
          /\ \A i \in DOMAIN m_nodes :
                m_nodes[i] # NULL =>
                    /\ m_nodes'[i] = m_nodes[i]
                    /\ m_nodes[i] \in TreeNodes'
                    /\ heap'[m_nodes[i]].m_data = heap[m_nodes[i]].m_data]_vars

\* A graft into a tree that already had a child below the root.
C7_Witness ==
    /\ call = "generateBranch"
    /\ outcome = "grafted"
    /\ Cardinality(OccupiedSlots) >= 3
    /\ Len(heap[m_tree].m_branches) >= 2

\* C8: a generateBranch() call changes nothing, or adds exactly one node to the
\* tree and sets exactly one empty slot, the new node's, to it.
C8_OneNodeOrNothing ==
    [][call' = "generateBranch" =>
          \/ UNCHANGED <<treeVars, leaked>>
          \/ /\ leaked' = leaked
             /\ m_tree' = m_tree
             /\ \E n \in TreeNodes' \ TreeNodes :
                   /\ TreeNodes' = TreeNodes \cup {n}
                   /\ DOMAIN heap' = DOMAIN heap \cup {n}
                   /\ \E i \in DOMAIN m_nodes :
                         /\ m_nodes[i] = NULL
                         /\ m_nodes' = [m_nodes EXCEPT ![i] = n]
                         /\ i = FlatIndex(heap'[n].m_data, getWidth(m_data))]_vars

\* A call that committed a node, and the index and the tree both have it.
C8_Witness ==
    /\ call = "generateBranch"
    /\ outcome = "grafted"
    /\ Cardinality(TreeNodes) = Cardinality(OccupiedSlots)
    /\ Cardinality(TreeNodes) >= 2

\* C9: prepareTree leaves a tree that is a single root holding the new start,
\* an Occupancy Index whose only occupied slot is the new start's and holds the
\* root, no node of the previous tree in the new tree or the new index, and
\* hasFinished() false when start and goal differ.
C9_PrepareResets ==
    [][call' = "prepareTree" =>
          /\ TreeNodes' = {m_tree'}
          /\ DOMAIN heap' = {m_tree'}
          /\ heap'[m_tree'] = [m_data |-> m_start', m_parent |-> NULL, m_branches |-> <<>>]
          /\ DOMAIN m_nodes' = 0 .. getTileCount(m_data') - 1
          /\ OccupiedSlots' = {FlatIndex(m_start', getWidth(m_data'))}
          /\ m_nodes'[FlatIndex(m_start', getWidth(m_data'))] = m_tree'
          /\ TreeNodes' \cap TreeNodes = {}
          /\ \A i \in DOMAIN m_nodes' : m_nodes'[i] \notin TreeNodes
          /\ m_start' # m_end' => ~hasFinished']_vars

\* prepareTree called on a tree that had grown, with a start other than (0,0).
C9_Witness ==
    /\ call = "prepareTree"
    /\ leaked # {}
    /\ m_start # Vector2i(0, 0)
    /\ m_start # m_end

\* C10: a generateBranch() call whose sample is a cell some node of the tree
\* holds changes neither the tree nor the Occupancy Index; the number of
\* occupied slots stays the same.
C10_OccupiedSampleChangesNothing ==
    [][\A random \in Coordinates(m_data) :
          (generateBranch(random) /\ \E n \in TreeNodes : heap[n].m_data = random) =>
              /\ UNCHANGED <<treeVars, leaked>>
              /\ Cardinality(OccupiedSlots') = Cardinality(OccupiedSlots)]_vars

\* A call that drew an occupied cell while the tree could still grow.
C10_Witness ==
    /\ call = "generateBranch"
    /\ outcome = "occupied"
    /\ Cardinality(TreeNodes) >= 2

C12_EventuallyFinished ==
    /\ <>(Prepared /\ hasFinished)
    /\ []((Prepared /\ hasFinished) =>
            \E n \in TreeNodes :
                /\ heap[n].m_data = OpenEnd
                /\ ReachesRoot(n, Cardinality(TreeNodes)))

\* Finished on the open level, the node at (4,4) two links below the root.
C12_Witness ==
    /\ m_data = OpenLevel
    /\ hasFinished
    /\ \E n \in TreeNodes : heap[n].m_data = OpenEnd /\ Depth(n) >= 2

\* C13: every edge of the tree is no longer than the branch distance: the
\* Euclidean distance between a node's coordinate and its parent's never exceeds
\* m_branchDistance, whatever the sample step (> 0) and the branch distance
\* (>= 1) are.
C13_EdgeWithinBranchDistance ==
    \A n \in TreeNodes \ {m_tree} :
        LET child  == heap[n].m_data
            parent == heap[heap[n].m_parent].m_data
            dx     == child.x - parent.x
            dy     == child.y - parent.y
        IN  (dx * dx + dy * dy) * m_branchDistance.den * m_branchDistance.den
                <= m_branchDistance.num * m_branchDistance.num

\* The Manhattan distance from the node in slot i of the Occupancy Index to r.
ManhattanFrom(i, r) ==
    Abs(heap[m_nodes[i]].m_data.x - r.x) + Abs(heap[m_nodes[i]].m_data.y - r.y)

\* C14: the node determineNearest chooses for a sample r is registered in the
\* Occupancy Index, no registered node is nearer to r in Manhattan distance
\* |dx| + |dy|, and of the registered nodes at that least distance it is the one
\* in the lowest slot.
C14_NearestIsFirstClosest ==
    Prepared =>
        \A r \in Coordinates(m_data) :
            \E i \in OccupiedSlots :
                /\ m_nodes[i] = determineNearest(m_nodes, heap, m_tree, r)
                /\ \A j \in OccupiedSlots : ManhattanFrom(i, r) <= ManhattanFrom(j, r)
                /\ \A j \in OccupiedSlots :
                       ManhattanFrom(j, r) = ManhattanFrom(i, r) => i <= j

\* After a graft, two registered nodes are equally near to a free tile and no
\* node is nearer: the next draw of that tile has a tie to resolve.
C14_Witness ==
    /\ Prepared
    /\ outcome = "grafted"
    /\ \E r \in Coordinates(m_data) :
          /\ m_nodes[FlatIndex(r, getWidth(m_data))] = NULL
          /\ \E i \in OccupiedSlots, j \in OccupiedSlots :
                /\ i < j
                /\ ManhattanFrom(i, r) = ManhattanFrom(j, r)
                /\ \A k \in OccupiedSlots : ManhattanFrom(i, r) <= ManhattanFrom(k, r)

\* The pairs <<tile type, base>> the table of the specification accepts.
PassablePairs ==
    ({Terrain, Swamp, Water} \X {OutOfBounds, Tree})
        \cup ({Water} \X {Water})
        \cup ({Terrain, Swamp} \X {Terrain, Swamp})

C16_OutOfBoundsBaseAllowsAny ==
    Prepared =>
        \A position \in Coordinates(m_data) : isValidTile(m_data, position, OutOfBounds)

\* C17: a prepareTree whose start or end lies outside the level is rejected
\* before anything of the session is written: a call that was not rejected had
\* both inside the level (what it stored as m_start and m_end), and it did not
\* index m_nodes out of range.
C17_OutsideIsRejected ==
    (call = "prepareTree" /\ outcome # "aborted") =>
        /\ m_start \in Coordinates(m_data)
        /\ m_end \in Coordinates(m_data)
        /\ outcome = "prepared"

\* C18: the sampling loop terminates.  While a call is inside the loop its cursor
\* never decreases and never exceeds the smaller of the magnitude and the branch
\* distance, and every call that enters the loop leaves it.
C18_LoopTerminates ==
    /\ [][(loop.pc = "loop" /\ loop'.pc = "loop") => loop'.current >= loop.current]_vars
    /\ [](loop.pc = "loop" =>
            loop.current <= fmin(Magnitude(loop.start, loop.end), ToFloat(m_branchDistance)))
    /\ (loop.pc = "loop") ~> (loop.pc = "idle")

\* Every pointer that an allocated node holds in m_branches is an allocated node.
NoDangling ==
    \A a \in DOMAIN heap :
        \A i \in DOMAIN heap[a].m_branches : heap[a].m_branches[i] \in DOMAIN heap

RECURSIVE SameShape(_, _)
\* Two subtrees hold the same payloads in the same arrangement.
SameShape(a, b) ==
    /\ heap[a].m_data = heap[b].m_data
    /\ Len(heap[a].m_branches) = Len(heap[b].m_branches)
    /\ \A i \in DOMAIN heap[a].m_branches :
          SameShape(heap[a].m_branches[i], heap[b].m_branches[i])

\* C19: a copy of a node is a root that owns a deep copy of the source's subtree.
\* While both are alive the copy has no parent, its subtree has the shape and
\* payloads of the source's and shares no node with it; once either tree is
\* destroyed, no pointer of the other refers to a destroyed node.
C19_CopyIsDeep ==
    /\ NoDangling
    /\ (copy # NoCopy /\ call # "~Tree") =>
          /\ heap[copy.node].m_parent = NULL
          /\ SameShape(copy.node, copy.source)
          /\ Subtree(heap, copy.node) \cap Subtree(heap, copy.source) = {}

\* The pairs (node, position) whose entry in m_branches is c.
Holders(h, c) ==
    {e \in UNION {{<<p, i>> : i \in DOMAIN h[p].m_branches} : p \in DOMAIN h} :
        h[e[1]].m_branches[e[2]] = c}

\* Every entry of every m_branches is an allocated node that is entered exactly
\* once and whose m_parent is the node holding the entry; the root has no parent.
TreeWellFormed(h) ==
    /\ m_tree \in DOMAIN h
    /\ h[m_tree].m_parent = NULL
    /\ \A p \in DOMAIN h :
          \A i \in DOMAIN h[p].m_branches :
              LET c == h[p].m_branches[i]
              IN  /\ c \in DOMAIN h
                  /\ h[c].m_parent = p
                  /\ Cardinality(Holders(h, c)) = 1

\* C20: after any sequence of addBranch (of a fresh node), removeBranch and
\* removeBranchOrdered calls, every node entered in an m_branches is entered
\* exactly once, its m_parent is the node holding the entry, the root has no
\* parent, and addBranch (branch) leaves the fresh node last in this's
\* m_branches, behind the entries that were there.
C20_BranchesAndParentsAgree ==
    /\ TreeWellFormed(heap)
    /\ [][/\ TreeWellFormed(heap')
          /\ call' = "addBranch" =>
                \E this \in DOMAIN heap :
                    \E branch \in DOMAIN heap' \ DOMAIN heap :
                        heap'[this].m_branches = Append(heap[this].m_branches, branch)]_vars

\* A swap-and-pop removal has left the root with two branches, out of the order
\* of their allocation.
C20_Witness ==
    /\ call = "removeBranch"
    /\ Len(heap[m_tree].m_branches) = 2
    /\ heap[m_tree].m_branches[1] > heap[m_tree].m_branches[2]

\* C21: removeBranchOrdered (index), with index below the branch count, leaves
\* this's m_branches as it was with the entry at index deleted: the entries
\* before it keep their place, those after it move down by one, in their order.
C21_OrderedRemovalKeepsOrder ==
    [][\A this \in DOMAIN heap :
          \A index \in BranchIndices(this) :
              RemoveBranchOrderedAt(this, index) =>
                  LET old == heap[this].m_branches
                      new == heap'[this].m_branches
                  IN  /\ Len(new) = Len(old) - 1
                      /\ \A j \in 1 .. Len(new) :
                            new[j] = IF j <= index THEN old[j] ELSE old[j + 1]]_vars

\* The first of three branches of the root was removed in order: the two that
\* were behind it remain, in their order.
C21_Witness ==
    /\ call = "removeBranchOrdered"
    /\ heap[m_tree].m_branches = <<3, 4>>

\* C22: removeBranch (index), with index below the branch count, leaves this's
\* m_branches one shorter: the former last entry stands at index (unless index
\* was the last), every other remaining entry keeps its place, and the entry
\* that was at index is gone.
C22_FastRemovalSwapsLast ==
    [][\A this \in DOMAIN heap :
          \A index \in BranchIndices(this) :
              RemoveBranchAt(this, index) =>
                  LET old == heap[this].m_branches
                      new == heap'[this].m_branches
                  IN  /\ Len(new) = Len(old) - 1
                      /\ \A j \in 1 .. Len(new) :
                            new[j] = IF j = index + 1 THEN old[Len(old)] ELSE old[j]
                      /\ \A j \in 1 .. Len(new) : new[j] # old[index + 1]]_vars

\* The first of three branches of the root was removed: the last one stands in
\* its place, ahead of the second.
C22_Witness ==
    /\ call = "removeBranch"
    /\ heap[m_tree].m_branches = <<4, 3>>

\* C23: removeBranch and removeBranchOrdered destroy the removed branch and
\* every node of its subtree: after the call none of them is allocated, none is
\* reachable from the node the branch was removed from, and each was handed
\* back exactly once.
C23_RemovalDestroysSubtree ==
    [][\A this \in DOMAIN heap :
          \A index \in BranchIndices(this) :
              (RemoveBranchAt(this, index) \/ RemoveBranchOrderedAt(this, index)) =>
                  LET removed == heap[this].m_branches[index + 1]
                      log     == Deletes(heap, removed)
                  IN  /\ Subtree(heap', this) \cap Subtree(heap, removed) = {}
                      /\ \A n \in Subtree(heap, removed) :
                            /\ n \notin DOMAIN heap'
                            /\ n \notin leaked'
                            /\ Cardinality({k \in DOMAIN log : log[k] = n}) = 1]_vars

\* The root keeps its branch 4 alone: its branch 2, which had the branch 3 of
\* its own, has been removed.
C23_Witness ==
    /\ call \in {"removeBranch", "removeBranchOrdered"}
    /\ DOMAIN heap = {1, 4}
    /\ heap[1].m_branches = <<4>>

\* C24: getBranch, removeBranch and removeBranchOrdered with an index that is
\* not below the branch count (the index findIndex returns for a pointer that
\* is no branch included) fail as a violated precondition and leave m_branches
\* as it was: no other branch is removed or returned.
C24_OutsideIndexFails ==
    [][\A this \in DOMAIN heap :
          \A index \in OutsideIndices(this) :
              (\/ getBranch(this, index)
               \/ removeBranchAsserted(this, index)
               \/ removeBranchOrderedAsserted(this, index)) =>
                  /\ outcome' = "aborted"
                  /\ heap' = heap]_vars

\* What is observed through the other object: its start and end, its m_nodes,
\* and the nodes of its tree with their contents.
OtherView(h, other) ==
    [m_start |-> other.m_start, m_end |-> other.m_end, m_nodes |-> other.m_nodes,
     tree |-> {<<n, h[n]>> : n \in Subtree(h, other.m_tree)}]

\* C25: no mutable state is shared between RRT objects: a prepareTree or
\* generateBranch call on one of them changes neither the tree, nor m_nodes,
\* nor the start or end observed through the other.
C25_InstancesShareNothing ==
    [][(copy # NoCopy /\ call' \in {"prepareTree", "generateBranch"}) =>
           OtherView(heap', copy') = OtherView(heap, copy)]_vars

\* C26: every node but the root passes isValidTile with the tile of its parent
\* as the base; and when generateBranch grafts a node, every point the loop
\* tested on the way (every interpolated point other than the parent's own)
\* passed isValidTile with that same base, the node being the last point that
\* passed: only the point that ended the loop, behind the node, may have failed.
C26_EdgePassable ==
    /\ [](Prepared =>
            \A n \in TreeNodes \ {m_tree} :
                LET p == heap[heap[n].m_parent].m_data
                IN  isValidTile(m_data, heap[n].m_data, getTile(m_data, p.x, p.y)))
    /\ [][\A random \in (IF Prepared THEN Coordinates(m_data) ELSE {}) :
              (generateBranch(random) /\ outcome' = "grafted") =>
                  LET nearest == determineNearest(m_nodes, heap, m_tree, random)
                      p       == heap[nearest].m_data
                      base    == getTile(m_data, p.x, p.y)
                      trail   == SampleTrail(m_data, m_sampleDistance, m_branchDistance,
                                             p, random)
                      passed  == {k \in DOMAIN trail : isValidTile(m_data, trail[k], base)}
                      node    == heap'[nearest].m_branches[Len(heap'[nearest].m_branches)]
                  IN  /\ passed # {}
                      /\ \A k \in DOMAIN trail : k < Len(trail) => k \in passed
                      /\ \A k \in DOMAIN trail : trail[k] # p
                      /\ \E k \in passed :
                            /\ heap'[node].m_data = trail[k]
                            /\ \A j \in passed : j <= k]_vars

\* On the level with Tree, Swamp and Water tiles, a node has been grafted at
\* (1,1) under its parent at (0,1): where a sample at the Water tile (2,1), which
\* fails the test, leaves the branch.
C26_Witness ==
    /\ m_data = LevelA
    /\ call = "generateBranch"
    /\ outcome = "grafted"
    /\ \E n \in TreeNodes \ {m_tree} :
          /\ heap[n].m_branches = <<>>
          /\ heap[heap[n].m_parent].m_data = Vector2i(0, 1)
          /\ heap[n].m_data = Vector2i(1, 1)

\* The points tested on the way from the nearest node to the sample.
TrailTo(random) ==
    SampleTrail(m_data, m_sampleDistance, m_branchDistance,
                heap[determineNearest(m_nodes, heap, m_tree, random)].m_data, random)

\* The first point tested on the way to the sample failed isValidTile.
CollidesAtOnce(random) ==
    LET p == heap[determineNearest(m_nodes, heap, m_tree, random)].m_data
    IN  /\ TrailTo(random) # <<>>
        /\ ~isValidTile(m_data, TrailTo(random)[1], getTile(m_data, p.x, p.y))

\* generateBranch with the sample goes as far as calculateBranch.
Constructs(random) ==
    /\ Prepared
    /\ random \in Coordinates(m_data)
    /\ ShouldGrow
    /\ m_nodes[FlatIndex(random, getWidth(m_data))] = NULL
    /\ generateBranch(random)

\* C27 as stated: branch construction toward an empty tile yields no branch
\* exactly when the first tested point that differs from the start is
\* impassable, and generateBranch then changes nothing.
C27_NoBranchIffCollision ==
    [][\A random \in (IF Prepared THEN Coordinates(m_data) ELSE {}) :
          Constructs(random) =>
              /\ outcome' = "nobranch" <=> CollidesAtOnce(random)
              /\ outcome' = "nobranch" => UNCHANGED <<rrtVars, treeVars, leaked>>]_vars

\* C27 amended: branch construction toward an empty tile yields no branch
\* exactly when no tested point passed: the first tested point that differs from
\* the start is impassable, or no interpolated point ever differs from the
\* start (the branch distance keeps the truncated point on the start's tile);
\* generateBranch then changes nothing.
C27_NoBranchIffNothingPassed ==
    [][\A random \in (IF Prepared THEN Coordinates(m_data) ELSE {}) :
          Constructs(random) =>
              /\ outcome' = "nobranch" <=>
                    (TrailTo(random) = <<>> \/ CollidesAtOnce(random))
              /\ outcome' = "nobranch" => UNCHANGED <<rrtVars, treeVars, leaked>>]_vars

\* No branch on the level without obstacles: with a branch distance of 1 no
\* interpolated point left the start's tile.
C27_Witness ==
    /\ m_data = PlainLevel
    /\ m_branchDistance = UnitParams.branchDistance
    /\ call = "generateBranch"
    /\ outcome = "nobranch"

\* C28: when generateBranch grafts a node, the node is the last branch of the
\* node nearest to the sample, has no branches, and is registered in m_nodes at
\* the flat index of its own coordinate; every node that existed keeps its
\* coordinate, its parent and its branches in their order, and m_start, m_end
\* and the level are unchanged.
C28_GraftIsLastLeaf ==
    [][\A random \in (IF Prepared THEN Coordinates(m_data) ELSE {}) :
          (Constructs(random) /\ outcome' = "grafted") =>
              LET nearest == determineNearest(m_nodes, heap, m_tree, random)
                  fresh   == DOMAIN heap' \ DOMAIN heap
              IN  /\ Cardinality(fresh) = 1
                  /\ \A new \in fresh :
                        /\ heap'[nearest].m_branches = Append(heap[nearest].m_branches, new)
                        /\ heap'[new].m_parent = nearest
                        /\ heap'[new].m_branches = <<>>
                        /\ m_nodes'[FlatIndex(heap'[new].m_data, getWidth(m_data))] = new
                  /\ \A n \in DOMAIN heap :
                        /\ heap'[n].m_data = heap[n].m_data
                        /\ heap'[n].m_parent = heap[n].m_parent
                        /\ n # nearest => heap'[n].m_branches = heap[n].m_branches
                  /\ UNCHANGED <<m_start, m_end, m_data>>]_vars

\* A node has been grafted while a node with two branches and a node with
\* one exist: the graft went behind a branch that was there, or left the
\* branches of another node alone.
C28_Witness ==
    /\ call = "generateBranch"
    /\ outcome = "grafted"
    /\ \E n \in TreeNodes : Len(heap[n].m_branches) = 2
    /\ \E n \in TreeNodes : Len(heap[n].m_branches) = 1


\* C29: a load succeeds only when the file holds width * height tiles, so
\* every loaded level has getTileCount() = getWidth() * getHeight(), and the
\* Occupancy Index prepareTree sizes from it has width * height slots.
C29_LoadedCountIsArea ==
    /\ level # NoData =>
          getTileCount(level) = getWidth(level) * getHeight(level)
    /\ m_data # NoData =>
          Cardinality(DOMAIN m_nodes) = getWidth(m_data) * getHeight(m_data)


\* Every tile of the level passes isValidTile for the type of every tile.
AllPassable(data) ==
    \A p \in Coordinates(data), q \in Coordinates(data) :
        isValidTile(data, p, getTile(data, q.x, q.y))

\* The diagonal of the level is no longer than m_branchDistance (on squares).
DiagonalWithinBranch ==
    (getWidth(m_data) * getWidth(m_data) + getHeight(m_data) * getHeight(m_data))
        * m_branchDistance.den * m_branchDistance.den
    <= m_branchDistance.num * m_branchDistance.num

\* C30: on a level where every tile is passable for every node and whose
\* diagonal does not exceed the branch distance, a generateBranch call that is
\* not finished and whose sample is an unoccupied tile grafts a node at exactly
\* the sample, as a branch of the node nearest to it.
C30_OpenLevelGraftsAtSample ==
    [][\A random \in (IF Prepared THEN Coordinates(m_data) ELSE {}) :
          (Constructs(random) /\ AllPassable(m_data) /\ DiagonalWithinBranch) =>
              LET nearest == determineNearest(m_nodes, heap, m_tree, random)
                  fresh   == DOMAIN heap' \ DOMAIN heap
              IN  /\ outcome' = "grafted"
                  /\ Cardinality(fresh) = 1
                  /\ \A new \in fresh :
                        /\ heap'[new].m_data = random
                        /\ heap'[new].m_parent = nearest
                        /\ new \in {heap'[nearest].m_branches[i] :
                                       i \in DOMAIN heap'[nearest].m_branches}
                        /\ m_nodes'[FlatIndex(random, getWidth(m_data))] = new]_vars

\* On the level without obstacles, with the default branch distance, a node
\* was grafted two tiles away from its parent: at the sample, not next to the
\* nearest node.
C30_Witness ==
    /\ Prepared
    /\ AllPassable(m_data)
    /\ DiagonalWithinBranch
    /\ call = "generateBranch"
    /\ outcome = "grafted"
    /\ \E n \in TreeNodes :
          /\ heap[n].m_parent # NULL
          /\ \/ Abs(heap[n].m_data.x - heap[heap[n].m_parent].m_data.x) >= 2
             \/ Abs(heap[n].m_data.y - heap[heap[n].m_parent].m_data.y) >= 2

\* C31: after prepareTree with start equal to end, hasFinished() is true at
\* once and stays true: the root, registered once, fills the slot of start and
\* of end, and it is the only node and the only slot in use.
C31_SamePointFinishedAtOnce ==
    (Prepared /\ m_start = m_end) =>
        /\ hasFinished
        /\ m_nodes[FlatIndex(m_start, getWidth(m_data))] = m_tree
        /\ m_nodes[FlatIndex(m_end, getWidth(m_data))] = m_tree
        /\ OccupiedSlots = {FlatIndex(m_start, getWidth(m_data))}
        /\ TreeNodes = {m_tree}

\* prepareTree has just returned with start equal to end, away from the origin.
C31_Witness ==
    /\ call = "prepareTree"
    /\ m_start = m_end
    /\ m_start # Vector2i(0, 0)
    /\ hasFinished

\* C32: once prepareTree has been called with start and end inside the level,
\* every node's coordinate lies inside the level, m_nodes has a slot and
\* m_tileData a tile for every coordinate, and every point a generateBranch
\* call tests on the way to its sample lies inside the level: no lookup in
\* m_nodes or in the level is out of range.
C32_LookupsInRange ==
    /\ [](Prepared =>
            /\ m_start \in Coordinates(m_data)
            /\ m_end \in Coordinates(m_data)
            /\ \A n \in DOMAIN heap : heap[n].m_data \in Coordinates(m_data)
            /\ \A p \in Coordinates(m_data) :
                  /\ FlatIndex(p, getWidth(m_data)) \in DOMAIN m_nodes
                  /\ FlatIndex(p, getWidth(m_data)) + 1 \in DOMAIN m_data.m_tileData)
    /\ [][\A random \in (IF Prepared THEN Coordinates(m_data) ELSE {}) :
              Constructs(random) =>
                  /\ heap[determineNearest(m_nodes, heap, m_tree, random)].m_data
                        \in Coordinates(m_data)
                  /\ \A k \in DOMAIN TrailTo(random) :
                        TrailTo(random)[k] \in Coordinates(m_data)]_vars

\* On the level that is wider than it is high, a node has been grafted in the
\* last column, whose x is no valid y.
C32_Witness ==
    /\ m_data = LevelA
    /\ call = "generateBranch"
    /\ outcome = "grafted"
    /\ \E n \in TreeNodes \ {m_tree} :
          /\ heap[n].m_data.x = getWidth(m_data) - 1
          /\ heap[n].m_data.x >= getHeight(m_data)

\* C33: no node is leaked: after any sequence of prepareTree and generateBranch
\* calls every node that is still allocated can be reached from the root, so
\* prepareTree has destroyed every node of the tree before it and a duplicate
\* branch that was discarded has been destroyed.
C33_NoNodeLeaked ==
    /\ leaked = {}
    /\ DOMAIN heap = TreeNodes


====
